---- MODULE Spec2Model ----
(***************************************************************************)
(* A model of src/main.py: the PDF downloader that reads a JSON listing,   *)
(* extracts the "_PDF" identifiers, and drives a browser session to fetch  *)
(* each document that is not yet in the output directory.                  *)
(*                                                                         *)
(* Text is modelled as sequences of one-character strings, so suffix tests *)
(* (str.endswith), concatenation (f-strings) and os.path.basename are      *)
(* computed.  JSON values are tagged records.                              *)
(***************************************************************************)
EXTENDS Naturals, Sequences, FiniteSets

VARIABLES
    pc,               \* position of the running program / call
    run,              \* number of the current run of main (1-based)
    listing_exists,   \* [path -> BOOLEAN]: os.path.isfile of each listing file
    listing_readable, \* whether open() of the first listing file succeeds
    listing_text,     \* content of page_1.json
    out_dir,          \* "absent" | "dir" | "file": what is at <script dir>/PDFs
    out_files,        \* names of the regular files inside the output directory
    pre_files,        \* the files that were in the output directory before run 1
    dl_count,         \* [file name -> number of times the browser saved it]
    dl_runs,          \* set of <<run, file name>>: which run saved which file
    session,          \* "none" | "open" | "closed": the WebDriver of this run
    quit_calls,       \* number of driver.quit() calls in this run
    dir_created,      \* this run created the output directory
    stdout,           \* lines printed by this run
    pdf_urls,         \* the list extract_pdf_urls returned to main
    idx,              \* 1-based index of the next URL of the for loop
    handled,          \* indices of pdf_urls whose loop body was entered
    navs,             \* URLs passed to driver.get in this run, in order
    finished,         \* the runs that reached the end of main after the loop
    ex_input,         \* extract_pdf_urls call: [text, base]
    ex_result,        \* extract_pdf_urls call: [raised, value, printed]
    call_input,       \* download_pdf_if_valid call: [target, resp]
    call_result       \* download_pdf_if_valid call: [raised, status, ret, saved]

vars == <<pc, run, listing_exists, listing_readable, listing_text, out_dir,
          out_files, pre_files, dl_count, dl_runs, session, quit_calls,
          dir_created, stdout, pdf_urls, idx, handled, navs, finished,
          ex_input, ex_result, call_input, call_result>>

-----------------------------------------------------------------------------
(* Bounds of the model *)

\* longest listing (number of rows) given to a stand-alone extract_pdf_urls call
MaxRows == 3
\* longest listing (number of rows) read by main
MaxListingRows == 2
\* longest performance log returned by driver.get_log
MaxLogLen == 3
\* longest performance log of a navigation made by main
MainLogLen == 1
\* number of consecutive runs of main against the same directory
MaxRuns == 2

-----------------------------------------------------------------------------
(* Text *)

\* str.endswith(suffix)
EndsWith(s, suffix) ==
    /\ Len(s) >= Len(suffix)
    /\ SubSeq(s, Len(s) - Len(suffix) + 1, Len(s)) = suffix

\* the suffix tested at src/main.py:233
PDF_SUFFIX == <<"_", "P", "D", "F">>

\* index of the last "/" of s, 0 when there is none: str.rfind("/") + 1
RECURSIVE LastSlash(_, _)
LastSlash(s, i) ==
    IF i = 0 THEN 0
    ELSE IF s[i] = "/" THEN i
    ELSE LastSlash(s, i - 1)

\* a variant that keeps the whole URL
get_file_name_from_url_whole(input_url) == input_url

\* os.path.basename: everything after the last "/"
get_file_name_from_url(input_url) ==
    SubSeq(input_url, LastSlash(input_url, Len(input_url)) + 1, Len(input_url))

\* the base_url main passes to extract_pdf_urls
BASE_URL ==
    <<"h","t","t","p","s",":","/","/","k","i","k","-","s","d","s",".",
      "t","h","e","w","e","r","c","s",".","c","o","m","/",
      "M","y","D","o","c","u","m","e","n","t","s","/",
      "D","o","w","n","l","o","a","d","S","i","n","g","l","e","F","i","l","e",
      "?","c","o","n","t","e","n","t","=">>

\* f"{base_url}/{pdf_id}"
BuildUrl(base_url, pdf_id) == base_url \o <<"/">> \o pdf_id

-----------------------------------------------------------------------------
(* JSON values, as json.loads builds them *)

JNull == [t |-> "null"]
JNum(n) == [t |-> "num", n |-> n]
JStr(s) == [t |-> "str", s |-> s]
JList(items) == [t |-> "list", items |-> items]
\* fields: a set of <<key, value>> pairs with distinct keys
JObj(fields) == [t |-> "obj", fields |-> fields]

KEY_data == <<"d", "a", "t", "a">>
KEY_Data == <<"D", "a", "t", "a">>

\* a file content: either text json.loads rejects, or the text of a value
BadText == [valid |-> FALSE]
TextOf(v) == [valid |-> TRUE, value |-> v]

\* json.loads(s): the value, or JSONDecodeError
json_loads(text) ==
    IF text.valid
    THEN [raised |-> "none", value |-> text.value]
    ELSE [raised |-> "JSONDecodeError"]

\* dict.get(key, default)
dict_get(obj, key, default) ==
    IF \E p \in obj.fields : p[1] = key
    THEN (CHOOSE p \in obj.fields : p[1] = key)[2]
    ELSE default

\* the keys of a dict, in some order, as a sequence of strings
RECURSIVE KeysOf(_)
KeysOf(fields) ==
    IF fields = {} THEN <<>>
    ELSE LET p == CHOOSE q \in fields : TRUE
         IN  <<JStr(p[1])>> \o KeysOf(fields \ {p})

\* "for row in records": the items a Python value yields when iterated
IterRows(records) ==
    CASE records.t = "list" -> [raised |-> "none", rows |-> records.items]
      [] records.t = "str"  ->
            [raised |-> "none",
             rows |-> [i \in 1..Len(records.s) |-> JStr(<<records.s[i]>>)]]
      [] records.t = "obj"  -> [raised |-> "none", rows |-> KeysOf(records.fields)]
      [] OTHER              -> [raised |-> "TypeError", rows |-> <<>>]

\* the filter of the list comprehension for one row:
\* isinstance(row, list) and isinstance(row[0], str) and row[0].endswith("_PDF")
\* "IndexError" when row[0] is evaluated on an empty list
RowVerdict(row) ==
    IF row.t # "list" THEN "drop"
    ELSE IF Len(row.items) = 0 THEN "IndexError"
    ELSE IF row.items[1].t # "str" THEN "drop"
    ELSE IF EndsWith(row.items[1].s, PDF_SUFFIX) THEN "keep"
    ELSE "drop"

\* the list comprehension over rows[i..], in row order
RECURSIVE CollectIds(_, _)
CollectIds(rows, i) ==
    IF i > Len(rows) THEN [raised |-> "none", ids |-> <<>>]
    ELSE LET v == RowVerdict(rows[i])
         IN  IF v = "IndexError" THEN [raised |-> "IndexError", ids |-> <<>>]
             ELSE LET rest == CollectIds(rows, i + 1)
                  IN  IF rest.raised # "none" THEN rest
                      ELSE IF v = "keep"
                           THEN [raised |-> "none",
                                 ids |-> <<rows[i].items[1].s>> \o rest.ids]
                           ELSE rest

\* what a call of extract_pdf_urls does: the exception that leaves it
\* ("none" when it returns), the list returned, and whether the except
\* branch printed its diagnostic
Returned(urls, printed) == [raised |-> "none", value |-> urls, printed |-> printed]
Raised(exc) == [raised |-> exc, value |-> <<>>, printed |-> FALSE]

extract_pdf_urls(json_string, base_url) ==
    LET parsed == json_loads(json_string)
    IN
    IF parsed.raised # "none" THEN Returned(<<>>, TRUE)   \* JSONDecodeError caught
    ELSE IF parsed.value.t # "obj" THEN Raised("AttributeError")
    ELSE
    LET data == dict_get(parsed.value, KEY_data, JObj({}))
    IN
    IF data.t # "obj" THEN Raised("AttributeError")
    ELSE
    LET records == dict_get(data, KEY_Data, JList(<<>>))
        it == IterRows(records)
    IN
    IF it.raised # "none" THEN Returned(<<>>, TRUE)       \* TypeError caught
    ELSE
    LET got == CollectIds(it.rows, 1)
    IN
    IF got.raised # "none" THEN Raised(got.raised)        \* IndexError not caught
    ELSE Returned([i \in 1..Len(got.ids) |-> BuildUrl(base_url, got.ids[i])], FALSE)

-----------------------------------------------------------------------------
(* The browser session: navigation, the performance log, the status check *)

\* the status compared at src/main.py:195
HTTP_OK == 200

ABOUT_BLANK == <<"a", "b", "o", "u", "t", ":", "b", "l", "a", "n", "k">>

\* int | None
NoStatus == [some |-> FALSE, code |-> 0]
Status(code) == [some |-> TRUE, code |-> code]

\* One entry of driver.get_log("performance").  parses: the message is JSON
\* and holds message.method (and, for a response, params.response.url);
\* has_status: params.response holds "status".
BadEntry ==
    [parses |-> FALSE, method |-> "", url |-> <<>>, has_status |-> FALSE, status |-> 0]
RequestEntry(u) ==
    [parses |-> TRUE, method |-> "Network.requestWillBeSent", url |-> u,
     has_status |-> FALSE, status |-> 0]
ResponseEntry(u, code) ==
    [parses |-> TRUE, method |-> "Network.responseReceived", url |-> u,
     has_status |-> TRUE, status |-> code]
ResponseNoStatus(u) ==
    [parses |-> TRUE, method |-> "Network.responseReceived", url |-> u,
     has_status |-> FALSE, status |-> 0]

\* a variant that does not compare the response URL with the requested one
EntryVerdict_any_url(log_entry, target_url) ==
    IF ~log_entry.parses THEN "next"
    ELSE IF log_entry.method # "Network.responseReceived" THEN "next"
    ELSE IF ~log_entry.has_status THEN "next"
    ELSE "return"

\* the body of the try block for one log entry: "return" with the status, or
\* "next" (the method or the URL differs, or an exception was caught)
EntryVerdict(log_entry, target_url) ==
    IF ~log_entry.parses THEN "next"
    ELSE IF log_entry.method # "Network.responseReceived" THEN "next"
    ELSE IF log_entry.url # target_url THEN "next"
    ELSE IF ~log_entry.has_status THEN "next"
    ELSE "return"

\* the for loop over browser_logs from entry i on
RECURSIVE ScanLog(_, _, _)
ScanLog(browser_logs, target_url, i) ==
    IF i > Len(browser_logs) THEN NoStatus
    ELSE IF EntryVerdict(browser_logs[i], target_url) = "return"
         THEN Status(browser_logs[i].status)
         ELSE ScanLog(browser_logs, target_url, i + 1)

\* the URLs get_http_status_code_from_browser passes to driver.get, in order
Navigations(target_url) == <<ABOUT_BLANK, target_url>>

\* What the browser does on driver.get(target_url) and driver.get_log:
\*   kind   "nav_error": driver.get(target_url) raises;
\*          "log_error": the navigation is done and driver.get_log raises;
\*          "ok":        both return;
\*   served the navigation made the browser save the document;
\*   log    the performance log.
\* The call raises, or returns the status found in the log.
get_http_status_code_from_browser(resp, target_url) ==
    IF resp.kind # "ok"
    THEN [raised |-> "WebDriverException", status |-> NoStatus]
    ELSE [raised |-> "none", status |-> ScanLog(resp.log, target_url, 1)]

\* a variant that accepts any status found
IsOk_any(status_code) == status_code.some

\* status_code == 200
IsOk(status_code) == status_code.some /\ status_code.code = HTTP_OK

download_pdf_if_valid(resp, pdf_url) ==
    LET r == get_http_status_code_from_browser(resp, pdf_url)
    IN  [raised |-> r.raised,
         status |-> r.status,
         ret    |-> r.raised = "none" /\ IsOk(r.status)]

\* the navigation itself is what saves the file (src/main.py:196)
Saved(resp) == resp.kind # "nav_error" /\ resp.served

\* where main expects the browser to save the document of a URL
\* (src/main.py:293-295)
SavedName(pdf_url) ==
    SubSeq(pdf_url, LastSlash(pdf_url, Len(pdf_url)) + 1, Len(pdf_url))

\* the effect of one download_pdf_if_valid call on the output directory
FilesAfter(files, resp, pdf_url) ==
    IF Saved(resp) THEN files \cup {SavedName(pdf_url)} ELSE files
CountAfter(count, resp, pdf_url) ==
    IF Saved(resp)
    THEN [count EXCEPT ![SavedName(pdf_url)] = @ + 1]
    ELSE count

-----------------------------------------------------------------------------
(* The inputs the model draws from *)

ID_a == <<"a", "_", "P", "D", "F">>
ID_b == <<"b", "_", "T", "X", "T">>
ID_c == <<"c", "_", "P", "D", "F">>

\* every file name the browser can save in the model
AllNames == {ID_a, ID_b, ID_c}

\* the base URL of the example of the specification, and the one main uses
Bases == {<<"h", "t", "t", "p", ":", "/", "/", "x">>, BASE_URL}

SeqsUpTo(S, n) == UNION {[1..k -> S] : k \in 0..n}

\* rows of a listing: not a list, an empty list, a list whose first element is
\* not a string, and lists that start with an identifier
OddRows ==
    {JNull, JNum(1), JStr(ID_a), JList(<<>>), JList(<<JNum(1)>>)}
IdRows ==
    {JList(<<JStr(ID_a)>>), JList(<<JStr(ID_b)>>), JList(<<JStr(ID_c)>>),
     JList(<<JStr(ID_a), JNum(1)>>)}

\* {"data": {"Data": rows}}
Listing(rows) ==
    TextOf(JObj({<<KEY_data, JObj({<<KEY_Data, JList(rows)>>})>>}))

\* texts that are not a listing: not JSON, top level not an object, data
\* missing or not an object, Data missing or not a list
ShapelessTexts ==
    {BadText,
     TextOf(JNull), TextOf(JNum(1)), TextOf(JStr(ID_a)),
     TextOf(JList(<<JList(<<JStr(ID_a)>>)>>)),
     TextOf(JObj({})),
     TextOf(JObj({<<KEY_data, JNull>>})),
     TextOf(JObj({<<KEY_data, JNum(1)>>})),
     TextOf(JObj({<<KEY_data, JStr(ID_a)>>})),
     TextOf(JObj({<<KEY_data, JList(<<>>)>>})),
     TextOf(JObj({<<KEY_data, JObj({})>>})),
     TextOf(JObj({<<KEY_data, JObj({<<KEY_Data, JNull>>})>>})),
     TextOf(JObj({<<KEY_data, JObj({<<KEY_Data, JNum(1)>>})>>})),
     TextOf(JObj({<<KEY_data, JObj({<<KEY_Data, JStr(ID_a)>>})>>})),
     TextOf(JObj({<<KEY_data, JObj({<<KEY_Data, JObj({<<ID_a, JNum(1)>>})>>})>>}))}

ExtractTexts ==
    ShapelessTexts \cup {Listing(rows) : rows \in SeqsUpTo(OddRows \cup IdRows, MaxRows)}

-----------------------------------------------------------------------------
(* Values of the variables a specification does not use *)

NoCall == [raised |-> "pending"]

MainIdle ==
    /\ run = 1
    /\ listing_exists = <<TRUE, TRUE>>
    /\ listing_readable = TRUE
    /\ listing_text = BadText
    /\ pre_files = {}
    /\ dl_runs = {}
    /\ session = "none"
    /\ quit_calls = 0
    /\ dir_created = FALSE
    /\ stdout = <<>>
    /\ pdf_urls = <<>>
    /\ idx = 1
    /\ handled = {}
    /\ finished = {}

ExtractIdle ==
    /\ ex_input = NoCall
    /\ ex_result = NoCall

CallIdle ==
    /\ call_input = NoCall
    /\ call_result = NoCall

main_vars == <<run, listing_exists, listing_readable, listing_text, pre_files,
               dl_runs, session, quit_calls, dir_created, stdout, pdf_urls,
               idx, handled, finished>>
fs_vars == <<out_dir, out_files, dl_count, navs>>

-----------------------------------------------------------------------------
(* ExtractSpec: one call of extract_pdf_urls on a drawn text and base URL *)

ExtractInit ==
    /\ pc = "extract_call"
    /\ ex_input \in [text : ExtractTexts, base : Bases]
    /\ ex_result = NoCall
    /\ MainIdle /\ CallIdle
    /\ out_dir = "dir" /\ out_files = {} /\ navs = <<>>
    /\ dl_count = [n \in AllNames |-> 0]

ExtractCall ==
    /\ pc = "extract_call"
    /\ ex_result' = extract_pdf_urls(ex_input.text, ex_input.base)
    /\ pc' = "extract_done"
    /\ UNCHANGED <<main_vars, fs_vars, ex_input, call_input, call_result>>

ExtractNext == ExtractCall

ExtractSpec == ExtractInit /\ [][ExtractNext]_vars

-----------------------------------------------------------------------------
(* StatusSpec: one call of download_pdf_if_valid on a drawn browser response *)

StatusCodes == {200, 403, 404}

\* the URL a redirect ends at
OtherUrl(target_url) == target_url \o <<"&", "r">>

LogEntries(target_url) ==
    {BadEntry, RequestEntry(target_url), ResponseNoStatus(target_url)}
    \cup {ResponseEntry(u, c) : u \in {target_url, OtherUrl(target_url)},
                                c \in StatusCodes}

\* a response of the requested URL itself with a status other than 200 means
\* the browser received no document for it
ServedAgrees(served, log, target_url) ==
    served => \A i \in 1..Len(log) :
                 (/\ log[i].parses
                  /\ log[i].method = "Network.responseReceived"
                  /\ log[i].url = target_url
                  /\ log[i].has_status) => log[i].status = 200

ResponsesUpTo(target_url, n) ==
    {[kind |-> "nav_error", served |-> FALSE, log |-> <<>>]}
    \cup {[kind |-> "log_error", served |-> s, log |-> <<>>] : s \in BOOLEAN}
    \cup {r \in [kind : {"ok"}, served : BOOLEAN,
                 log : SeqsUpTo(LogEntries(target_url), n)] :
             ServedAgrees(r.served, r.log, target_url)}

Responses(target_url) == ResponsesUpTo(target_url, MaxLogLen)

Targets == {BuildUrl(BASE_URL, ID_a), BuildUrl(BASE_URL, ID_c)}

StatusInit ==
    /\ pc = "download_call"
    /\ \E t \in Targets : \E r \in Responses(t) :
          call_input = [target |-> t, resp |-> r]
    /\ call_result = NoCall
    /\ MainIdle /\ ExtractIdle
    /\ out_dir = "dir" /\ out_files = {} /\ navs = <<>>
    /\ dl_count = [n \in AllNames |-> 0]

DownloadCall ==
    /\ pc = "download_call"
    /\ LET r == download_pdf_if_valid(call_input.resp, call_input.target)
       IN  call_result' = r
    /\ navs' = navs \o Navigations(call_input.target)
    /\ out_files' = FilesAfter(out_files, call_input.resp, call_input.target)
    /\ dl_count' = CountAfter(dl_count, call_input.resp, call_input.target)
    /\ pc' = "download_done"
    /\ UNCHANGED <<main_vars, out_dir, ex_input, ex_result, call_input>>

StatusNext == DownloadCall

StatusSpec == StatusInit /\ [][StatusNext]_vars

\* the first entry of the log, in log order, that is a received response of
\* exactly the requested URL and carries a status; 0 when there is none
FirstMatch(log, target_url) ==
    LET M == {i \in 1..Len(log) :
                 /\ log[i].parses
                 /\ log[i].method = "Network.responseReceived"
                 /\ log[i].url = target_url
                 /\ log[i].has_status}
    IN  IF M = {} THEN 0 ELSE CHOOSE i \in M : \A j \in M : i <= j

\* C7: whenever download_pdf_if_valid returns False, that call has produced
\* no file in the output directory.
C7_FalseMeansNoFile ==
    (pc = "download_done" /\ call_result.raised = "none" /\ ~call_result.ret)
        => out_files = {}

\* C9: download_pdf_if_valid returns True exactly when the status the log
\* scan gives for the URL is 200; for 403, 404 and None it returns False.
C9_TrueIffStatus200 ==
    (pc = "download_done" /\ call_result.raised = "none")
        => /\ call_result.ret
                <=> (call_result.status.some /\ call_result.status.code = 200)
           /\ (\/ ~call_result.status.some
               \/ call_result.status.code \in {403, 404}) => ~call_result.ret

C9_Witness ==
    /\ pc = "download_done"
    /\ call_result.raised = "none"
    /\ call_result.ret
    /\ Len(call_input.resp.log) = 2
    /\ call_input.resp.log[1] = ResponseEntry(OtherUrl(call_input.target), 404)

\* C10: the call navigates to the blank page and then to the target, and
\* returns the status of the first log entry that is a received response of
\* exactly the requested URL; malformed entries are passed over; with no
\* matching entry the result is None and nothing is raised.
C10_FirstMatchingEntry ==
    (pc = "download_done" /\ call_input.resp.kind = "ok")
        => /\ navs = <<ABOUT_BLANK, call_input.target>>
           /\ call_result.raised = "none"
           /\ LET m == FirstMatch(call_input.resp.log, call_input.target)
              IN  IF m = 0
                  THEN call_result.status = NoStatus
                  ELSE /\ call_result.status.some
                       /\ call_result.status.code = call_input.resp.log[m].status

\* a malformed entry, then two responses of the target with different statuses
C10_Witness ==
    /\ pc = "download_done"
    /\ call_input.resp.kind = "ok"
    /\ Len(call_input.resp.log) = 3
    /\ call_input.resp.log[1] = BadEntry
    /\ call_input.resp.log[2] = ResponseEntry(call_input.target, 404)
    /\ call_input.resp.log[3] = ResponseEntry(call_input.target, 200)
    /\ call_result.status = Status(404)

-----------------------------------------------------------------------------
(* Spec: runs of main against one listing and one output directory *)

\* valid_urls_path
PATHS == <<"page_1.json", "page_2.json">>

ErrorLine(path) == [line |-> "Error: {path} not found.", path |-> path]
ProcessingLine(url) == [line |-> "Processing URL: {pdf_url}", url |-> url]
ParseErrorLine == [line |-> "Error parsing JSON: {e}"]

\* a variant that checks the first path only
FirstFailingCheck_first_only(exists, i) == IF ~exists[1] THEN 1 ELSE 0

\* the loop over valid_urls_path from path i on: the index of the path whose
\* check fails and ends main, 0 when every path is a file
RECURSIVE FirstFailingCheck(_, _)
FirstFailingCheck(exists, i) ==
    IF i > Len(PATHS) THEN 0
    ELSE IF ~exists[i] THEN i
    ELSE FirstFailingCheck(exists, i + 1)

\* a variant that looks the name up outside the output directory
check_file_exists_elsewhere(dir, files, file_name) == FALSE

\* check_file_exists(os.path.join(output_directory, file_name))
check_file_exists(dir, files, file_name) ==
    dir = "dir" /\ file_name \in files

\* the listings main reads: rows with identifiers, an empty row, and texts
\* that are not a listing
MainRows ==
    {JList(<<JStr(ID_a)>>), JList(<<JStr(ID_b)>>), JList(<<JStr(ID_c)>>)}
MainTexts ==
    {BadText, TextOf(JNull), Listing(<<JList(<<>>)>>)}
    \cup {Listing(rows) : rows \in SeqsUpTo(MainRows, MaxListingRows)}

Init ==
    /\ pc = "ValidateInputs"
    /\ run = 1
    /\ listing_exists \in {<<a, b>> : a \in BOOLEAN, b \in BOOLEAN}
    /\ listing_readable \in BOOLEAN
    /\ listing_text \in MainTexts
    /\ out_dir \in {"absent", "dir", "file"}
    /\ out_files \in (IF out_dir = "dir" THEN SUBSET {ID_a} ELSE {{}})
    /\ pre_files = out_files
    /\ dl_count = [n \in AllNames |-> 0]
    /\ dl_runs = {}
    /\ session = "none"
    /\ quit_calls = 0
    /\ dir_created = FALSE
    /\ stdout = <<>>
    /\ pdf_urls = <<>>
    /\ idx = 1
    /\ handled = {}
    /\ navs = <<>>
    /\ finished = {}
    /\ ExtractIdle /\ CallIdle

calls_unchanged == UNCHANGED <<ex_input, ex_result, call_input, call_result>>
inputs_unchanged ==
    UNCHANGED <<run, listing_exists, listing_readable, listing_text, pre_files>>

\* src/main.py:254-258
ValidateInputs ==
    /\ pc = "ValidateInputs"
    /\ LET m == FirstFailingCheck(listing_exists, 1)
       IN  IF m # 0
           THEN /\ stdout' = Append(stdout, ErrorLine(PATHS[m]))
                /\ pc' = "Done"
           ELSE /\ stdout' = stdout
                /\ pc' = "PrepareOutputDir"
    /\ UNCHANGED <<out_dir, out_files, dl_count, dl_runs, session, quit_calls,
                   dir_created, pdf_urls, idx, handled, navs, finished>>
    /\ inputs_unchanged /\ calls_unchanged

\* src/main.py:264-265: os.path.exists, then os.mkdir
PrepareOutputDir ==
    /\ pc = "PrepareOutputDir"
    /\ IF out_dir = "absent"
       THEN out_dir' = "dir" /\ dir_created' = TRUE
       ELSE UNCHANGED <<out_dir, dir_created>>
    /\ pc' = "OpenSession"
    /\ UNCHANGED <<out_files, dl_count, dl_runs, session, quit_calls, stdout,
                   pdf_urls, idx, handled, navs, finished>>
    /\ inputs_unchanged /\ calls_unchanged

\* src/main.py:268, setup_browser: os.makedirs(exist_ok=True) raises when the
\* path is a regular file; webdriver.Chrome either starts the browser or raises
OpenSession ==
    /\ pc = "OpenSession"
    /\ IF out_dir = "file"
       THEN pc' = "Crashed" /\ UNCHANGED <<out_dir, session, dir_created>>
       ELSE /\ out_dir' = "dir"
            /\ dir_created' = (dir_created \/ out_dir = "absent")
            /\ \E launched \in BOOLEAN :
                 IF launched
                 THEN session' = "open" /\ pc' = "ReadListing"
                 ELSE session' = session /\ pc' = "Crashed"
    /\ UNCHANGED <<out_files, dl_count, dl_runs, quit_calls, stdout,
                   pdf_urls, idx, handled, navs, finished>>
    /\ inputs_unchanged /\ calls_unchanged

\* src/main.py:271: read_a_file(valid_urls_path[0]) returns the text or raises
ReadListing ==
    /\ pc = "ReadListing"
    /\ pc' = IF listing_readable THEN "ExtractUrls" ELSE "Crashed"
    /\ UNCHANGED <<out_dir, out_files, dl_count, dl_runs, session, quit_calls,
                   dir_created, stdout, pdf_urls, idx, handled, navs, finished>>
    /\ inputs_unchanged /\ calls_unchanged

\* src/main.py:284-287
ExtractUrls ==
    /\ pc = "ExtractUrls"
    /\ LET r == extract_pdf_urls(listing_text, BASE_URL)
       IN  IF r.raised # "none"
           THEN pc' = "Crashed" /\ UNCHANGED <<pdf_urls, stdout>>
           ELSE /\ pdf_urls' = r.value
                /\ stdout' = IF r.printed THEN Append(stdout, ParseErrorLine)
                             ELSE stdout
                /\ pc' = "PerUrlLoop"
    /\ idx' = 1
    /\ UNCHANGED <<out_dir, out_files, dl_count, dl_runs, session, quit_calls,
                   dir_created, handled, navs, finished>>
    /\ inputs_unchanged /\ calls_unchanged

\* src/main.py:290-302: one iteration of the for loop
LoopBody ==
    /\ pc = "PerUrlLoop"
    /\ idx <= Len(pdf_urls)
    /\ LET pdf_url == pdf_urls[idx]
           file_name == get_file_name_from_url(pdf_url)
       IN  /\ stdout' = Append(stdout, ProcessingLine(pdf_url))
           /\ handled' = handled \cup {idx}
           /\ IF check_file_exists(out_dir, out_files, file_name)
              THEN /\ idx' = idx + 1
                   /\ pc' = pc
                   /\ UNCHANGED <<out_files, dl_count, dl_runs, navs>>
              ELSE \E resp \in ResponsesUpTo(pdf_url, MainLogLen) :
                     LET r == download_pdf_if_valid(resp, pdf_url)
                     IN  /\ navs' = navs \o Navigations(pdf_url)
                         /\ out_files' = FilesAfter(out_files, resp, pdf_url)
                         /\ dl_count' = CountAfter(dl_count, resp, pdf_url)
                         /\ dl_runs' = IF Saved(resp)
                                       THEN dl_runs \cup {<<run, SavedName(pdf_url)>>}
                                       ELSE dl_runs
                         /\ IF r.raised # "none"
                            THEN pc' = "Crashed" /\ idx' = idx
                            ELSE pc' = pc /\ idx' = idx + 1
    /\ UNCHANGED <<out_dir, session, quit_calls, dir_created, pdf_urls, finished>>
    /\ inputs_unchanged /\ calls_unchanged

\* src/main.py:305: driver.quit() after the loop
CloseSession ==
    /\ pc = "PerUrlLoop"
    /\ idx > Len(pdf_urls)
    /\ session' = "closed"
    /\ quit_calls' = quit_calls + 1
    /\ finished' = finished \cup {run}
    /\ pc' = "Done"
    /\ UNCHANGED <<out_dir, out_files, dl_count, dl_runs, dir_created, stdout,
                   pdf_urls, idx, handled, navs>>
    /\ inputs_unchanged /\ calls_unchanged

\* src/main.py:309-311: the program is started again, on the same listing
\* files and the same output directory
Rerun ==
    /\ pc \in {"Done", "Crashed"}
    /\ run < MaxRuns
    /\ run' = run + 1
    /\ pc' = "ValidateInputs"
    /\ session' = "none"
    /\ quit_calls' = 0
    /\ dir_created' = FALSE
    /\ stdout' = <<>>
    /\ pdf_urls' = <<>>
    /\ idx' = 1
    /\ handled' = {}
    /\ navs' = <<>>
    /\ UNCHANGED <<listing_exists, listing_readable, listing_text, pre_files,
                   out_dir, out_files, dl_count, dl_runs, finished>>
    /\ calls_unchanged

Next ==
    \/ ValidateInputs
    \/ PrepareOutputDir
    \/ OpenSession
    \/ ReadListing
    \/ ExtractUrls
    \/ LoopBody
    \/ CloseSession
    \/ Rerun

Spec == Init /\ [][Next]_vars

-----------------------------------------------------------------------------
(* Properties of the runs of main *)

RunEnded == pc \in {"Done", "Crashed"}

\* C1: in every run that opened the browser session, driver.quit has been
\* called exactly once when the run ends, whatever the exit path.
C1_QuitOnceOnEveryExit ==
    (RunEnded /\ session # "none") => (quit_calls = 1 /\ session = "closed")

\* what the code does keep of C1: a run that leaves main by its last line
\* has closed the session exactly once
C1_QuitOnceOnNormalExit ==
    (pc = "Done" /\ session # "none") => (quit_calls = 1 /\ session = "closed")

SomeMissing == \E i \in 1..Len(PATHS) : ~listing_exists[i]
FirstMissing ==
    CHOOSE i \in 1..Len(PATHS) :
        ~listing_exists[i] /\ \A j \in 1..(i - 1) : listing_exists[j]

\* C2: when a listing file is not a regular file, main ends before a browser
\* session or the output directory is created, and prints exactly one error
\* line, naming the first missing path.
C2_MissingInputStopsEarly ==
    SomeMissing =>
        /\ pc \in {"ValidateInputs", "Done"}
        /\ session = "none" /\ quit_calls = 0
        /\ ~dir_created /\ navs = <<>>
        /\ pc = "ValidateInputs" => stdout = <<>>
        /\ pc = "Done" =>
             stdout = <<[line |-> "Error: {path} not found.",
                         path |-> PATHS[FirstMissing]]>>

C2_Witness ==
    /\ pc = "Done"
    /\ listing_exists = <<TRUE, FALSE>>
    /\ out_dir = "absent"
    /\ Len(stdout) = 1 /\ stdout[1].path = "page_2.json"

\* C3: every extracted URL has had its loop body entered (skipped or
\* attempted) when the run ends, whatever happened to the URLs before it.
C3_EveryUrlProcessed ==
    (RunEnded /\ pdf_urls # <<>>) => handled = 1..Len(pdf_urls)

\* what the code does keep of C3: a status other than 200 or an absent
\* status never ends the loop early
C3_StatusFailuresDoNotStop ==
    (pc = "Done" /\ pdf_urls # <<>>) => handled = 1..Len(pdf_urls)

\* the names saved by a run
SavedBy(r) == {n \in AllNames : <<r, n>> \in dl_runs}

\* C6 as stated: after a first run that went through its whole loop, a second
\* run downloads nothing.
C6_NoDownloadOnSecondRun ==
    (run = 2 /\ 1 \in finished) => SavedBy(2) = {}

\* C6, amended: a later run navigates to no URL whose file an earlier run
\* saved, and saves no file an earlier run saved.
C6_NoDuplicateDownloadOnRerun ==
    \A r \in 1..(run - 1) : \A n \in SavedBy(r) :
        /\ n \notin SavedBy(run)
        /\ \A i \in 1..Len(navs) :
             navs[i] = ABOUT_BLANK
             \/ SubSeq(navs[i], LastSlash(navs[i], Len(navs[i])) + 1, Len(navs[i])) # n

C6_Witness ==
    /\ run = 2 /\ pc = "Done" /\ 1 \in finished
    /\ Len(pdf_urls) = 2
    /\ handled = {1, 2}
    /\ SavedBy(1) = {ID_a, ID_c}
    /\ navs = <<>>

\* C8: no file name is saved more than once, and a file that was in the
\* output directory before is never saved again, also when the listing
\* holds the same identifier in several rows.
C8_NoFileSavedTwice ==
    \A n \in AllNames :
        /\ dl_count[n] <= 1
        /\ n \in pre_files => dl_count[n] = 0

\* a listing with the same identifier twice: saved once, skipped once
C8_Witness ==
    /\ pc = "Done"
    /\ run = 1
    /\ Len(pdf_urls) = 2 /\ pdf_urls[1] = pdf_urls[2]
    /\ handled = {1, 2}
    /\ dl_count[ID_a] = 1
    /\ Len(navs) = 2

-----------------------------------------------------------------------------
(* What the listing should yield, stated from the rows alone *)

\* the text is an object whose data.Data is a list of rows
IsListing(text) ==
    /\ text.valid
    /\ text.value.t = "obj"
    /\ \E p \in text.value.fields :
         /\ p[1] = KEY_data
         /\ p[2].t = "obj"
         /\ \E q \in p[2].fields : q[1] = KEY_Data /\ q[2].t = "list"

RowsOf(text) ==
    LET d == (CHOOSE p \in text.value.fields : p[1] = KEY_data)[2]
    IN  (CHOOSE q \in d.fields : q[1] = KEY_Data)[2].items

\* a row that is a list whose first element is a string ending in "_PDF"
Qualifies(row) ==
    /\ row.t = "list"
    /\ Len(row.items) >= 1
    /\ row.items[1].t = "str"
    /\ Len(row.items[1].s) >= 4
    /\ SubSeq(row.items[1].s, Len(row.items[1].s) - 3, Len(row.items[1].s))
           = <<"_", "P", "D", "F">>

RECURSIVE ExpectedUrls(_, _)
ExpectedUrls(rows, base) ==
    IF rows = <<>> THEN <<>>
    ELSE LET rest == ExpectedUrls(Tail(rows), base)
         IN  IF Qualifies(Head(rows))
             THEN <<base \o <<"/">> \o Head(rows).items[1].s>> \o rest
             ELSE rest

\* a row of one of the malformed kinds: not a list, empty, or first element
\* not a string
OddRow(row) ==
    \/ row.t # "list"
    \/ Len(row.items) = 0
    \/ row.items[1].t # "str"

\* malformed or partially shaped: not a listing, or a listing all of whose
\* rows are of a malformed kind
Malformed(text) ==
    \/ ~IsListing(text)
    \/ \A i \in 1..Len(RowsOf(text)) : OddRow(RowsOf(text)[i])

\* C4: for every malformed or partially shaped JSON text, extract_pdf_urls
\* returns the empty list and no exception leaves it.
C4_MalformedYieldsEmpty ==
    (pc = "extract_done" /\ Malformed(ex_input.text))
        => (ex_result.raised = "none" /\ ex_result.value = <<>>)

\* C5: for every listing (an object whose data.Data is a list of rows),
\* extract_pdf_urls returns exactly base/identifier for the rows that are
\* lists whose first element is a string ending in "_PDF", in row order,
\* duplicates kept, and nothing for any other row.
C5_ExactUrlsInOrder ==
    (pc = "extract_done" /\ IsListing(ex_input.text))
        => /\ ex_result.raised = "none"
           /\ ex_result.value = ExpectedUrls(RowsOf(ex_input.text), ex_input.base)

\* the part of C5 the code keeps: a listing without an empty row
C5_HoldsWithoutEmptyRows ==
    (/\ pc = "extract_done"
     /\ IsListing(ex_input.text)
     /\ \A i \in 1..Len(RowsOf(ex_input.text)) : RowsOf(ex_input.text)[i] # JList(<<>>))
        => /\ ex_result.raised = "none"
           /\ ex_result.value = ExpectedUrls(RowsOf(ex_input.text), ex_input.base)

====
